---- MODULE Spec2Model ----
(***************************************************************************)
(* A model of selprotopy.SelClient: the connection check of the            *)
(* constructor, the access-level operations, the auto-configuration        *)
(* sequence and fast-meter polling, one step of the model per transport    *)
(* write or read.  Bytes are sequences of symbols (strings); a read        *)
(* returns one chunk chosen by the relay.                                  *)
(***************************************************************************)
EXTENDS Integers, Sequences, FiniteSets, TLC

VARIABLES self, pc, stk, ret, op, status, log, loc, parsed, assigns, gen, nops,
          prev, connected

vars == <<self, pc, stk, ret, op, status, log, loc, parsed, assigns, gen, nops, prev, connected>>

(***************************************************************************)
(* Bounds of the model.                                                    *)
(***************************************************************************)
\* public calls made on the constructed client in one behaviour (nops counts
\* the calls that are left)
MaxOps == 2
\* the largest validConnChecks tried by the connection-check specification
MaxChecks == 2
\* reads one _read_command_response loop is followed through
MaxReads == 2

\* validConnChecks=5, the constructor's default
DefaultChecks == 5

(***************************************************************************)
(* commands: the byte strings of the command vocabulary.                   *)
(***************************************************************************)
CR == <<"CR">>
LEVEL_0 == <<"L0">>
LEVEL_1 == <<"L1">>
LEVEL_2 == <<"L2">>
LEVEL_C == <<"LC">>
PROMPT == CR \o LEVEL_0
INVALID == <<"Invalid">>
QUIT == <<"QUI">> \o CR
GO_ACC == <<"ACC">> \o CR
GO_2AC == <<"2AC">> \o CR
PASS_ACC == <<"pwACC">>
PASS_2AC == <<"pw2AC">>
DNA == <<"DNA">> \o CR
ID == <<"ID">> \o CR
RELAY_DEFENITION == <<"A5", "C0">>
FM_CONFIG_BLOCK == <<"A5", "C1">>
FM_DEMAND_CONFIG_BLOCK == <<"A5", "C2">>
FM_PEAK_CONFIG_BLOCK == <<"A5", "C3">>
FAST_METER_REGULAR == <<"A5", "D1">>
FAST_METER_DEMAND == <<"A5", "D2">>
FAST_METER_PEAK_DEMAND == <<"A5", "D3">>
FO_CONFIG_BLOCK == <<"A5", "CE">>
FAST_MSG_CONFIG_BLOCK == <<"A5", "C6">>

\* the settings generations a relay can be in: each has its own dialect
Gens == {"g1", "g2"}

\* settings only move on: the generations a relay of generation g can be in
\* at a later call
LaterGens(g) == IF g = "g1" THEN Gens ELSE {g}

\* None, and an attribute that was never assigned
None == [tag |-> "None"]
Unset == [tag |-> "Unset"]
ParseError == [tag |-> "ParseError"]

IsNone(x) == x.tag = "None"
Failed(x) == x.tag = "ParseError"

(***************************************************************************)
(* needle in haystack, for byte strings.                                   *)
(***************************************************************************)
Contains(hay, needle) ==
    \E i \in 0..(Len(hay) - Len(needle)) :
        SubSeq(hay, i + 1, i + Len(needle)) = needle

\* the first index at which needle occurs in hay, 0 when it does not
Find(hay, needle) ==
    IF Contains(hay, needle)
    THEN CHOOSE i \in 1..Len(hay) :
            /\ i + Len(needle) - 1 <= Len(hay)
            /\ SubSeq(hay, i, i + Len(needle) - 1) = needle
            /\ \A j \in 1..(i - 1) : SubSeq(hay, j, j + Len(needle) - 1) # needle
    ELSE 0

(***************************************************************************)
(* protoparser: the block parsers.  A block is the echo of its command     *)
(* code (for the binary blocks), a kind symbol and the payload; the        *)
(* payload is the settings generation of the relay that sent it.           *)
(***************************************************************************)
\* the dialect of a relay of generation g
ConfigCode(g, i) == IF g = "g1" THEN <<"A5", <<"C1", "C2", "C3">>[i]>>
                                ELSE <<"A5", <<"E1", "E2", "E3">>[i]>>
DataCode(g, i) == IF g = "g1" THEN <<"A5", <<"D1", "D2", "D3">>[i]>>
                              ELSE <<"A5", <<"F1", "F2", "F3">>[i]>>

RelayDefinitionBlock(raw) ==
    LET i == Find(raw, RELAY_DEFENITION) IN
    IF i > 0 /\ i + 3 <= Len(raw) /\ raw[i + 2] = "def" /\ raw[i + 3] \in Gens
    THEN LET g == raw[i + 3] IN
         [tag |-> "def",
          fmcommandinfo |-> [k \in 1..3 |->
                [configcommand |-> ConfigCode(g, k), command |-> DataCode(g, k)]],
          fopcommandinfo |-> <<"fop", g>>,
          fmsgcommandinfo |-> <<"fmsg", g>>]
    ELSE ParseError

FastMeterConfigurationBlock(raw) ==
    IF Len(raw) = 4 /\ raw[3] = "cfg" /\ raw[4] \in Gens
    THEN [tag |-> "cfg", command |-> SubSeq(raw, 1, 2), gen |-> raw[4]]
    ELSE ParseError

RelayDnaBlock(raw) ==
    IF Len(raw) = 2 /\ raw[1] = "dna" /\ raw[2] \in Gens
    THEN [tag |-> "dna", gen |-> raw[2]]
    ELSE ParseError

RelayIdBlock(raw) ==
    IF Len(raw) = 2 /\ raw[1] = "id" /\ raw[2] \in Gens
    THEN [tag |-> "id", FID |-> <<"FID", raw[2]>>, BFID |-> <<"BFID", raw[2]>>,
          CID |-> <<"CID", raw[2]>>, DEVID |-> <<"DEVID", raw[2]>>,
          PARTNO |-> <<"PARTNO", raw[2]>>, CONFIG |-> <<"CONFIG", raw[2]>>]
    ELSE ParseError

FastMeterBlock(raw, fmdef, dnadef) ==
    IF \E i \in 1..(Len(raw) - 1) : raw[i] = "dat" /\ raw[i + 1] \in Gens
    THEN LET i == CHOOSE j \in 1..(Len(raw) - 1) : raw[j] = "dat" /\ raw[j + 1] \in Gens
         IN [tag |-> "reading", data |-> raw[i + 1], fmdef |-> fmdef, dnadef |-> dnadef]
    ELSE ParseError


(***************************************************************************)
(* The transport.  The log holds the writes (with their bytes), the reads  *)
(* and the successful parses of the public call in progress.               *)
(***************************************************************************)
W(b) == [k |-> "w", b |-> b]
R == [k |-> "r", b |-> <<>>]
P(kind) == [k |-> "p", b |-> <<kind>>]

Writes(l) == SelectSeq(l, LAMBDA e : e.k = "w")
LastWrite == LET ws == Writes(log) IN ws[Len(ws)].b

\* the kind of block a relay answers a two-byte command code with
KindOf(c) ==
    IF c = RELAY_DEFENITION THEN "def"
    ELSE IF \E g \in Gens, i \in 1..3 : c = ConfigCode(g, i) THEN "cfg"
    ELSE IF \E g \in Gens, i \in 1..3 : c = DataCode(g, i) THEN "dat"
    ELSE "x"

\* what conn.read_until can return after the write w, from a relay of
\* generation g: the answer, the answer cut in two chunks inside the echoed
\* command code, an answer with a damaged payload, or bytes with no marker
Responses(w, g) ==
    IF w = CR THEN {LEVEL_0, LEVEL_1, LEVEL_2, LEVEL_C}
    ELSE IF w = QUIT THEN {LEVEL_0, <<"x">>}
    ELSE IF w = DNA THEN {<<"dna", g>>, <<"x">>}
    ELSE IF w = ID THEN {<<"id", g>>, <<"x">>}
    ELSE IF Len(w) = 3 /\ KindOf(SubSeq(w, 1, 2)) # "x"
    THEN LET c == SubSeq(w, 1, 2) IN
         {c \o <<KindOf(c), g>>, <<c[1]>>, <<c[2], KindOf(c), g>>,
          c \o <<"x">>, <<"x">>}
    ELSE {LEVEL_0, INVALID}

(***************************************************************************)
(* State.                                                                  *)
(***************************************************************************)
Fields == {"fid", "bfid", "cid", "devid", "partno", "config",
           "fmconfigcommand1", "fmcommand1", "fmconfigcommand2", "fmcommand2",
           "fmconfigcommand3", "fmcommand3", "fopcommandinfo", "fmsgcommandinfo",
           "fastMeterDef", "fastDemandDef", "fastPkDemandDef", "dnaDef"}

\* the keyword arguments a caller passes: the two passwords
KwSet == {[level_1_pass |-> PASS_ACC, level_2_pass |-> PASS_2AC],
          [level_1_pass |-> <<"pwA">>, level_2_pass |-> <<"pwB">>]}
DefaultKw == [level_1_pass |-> PASS_ACC, level_2_pass |-> PASS_2AC]

MinAccLevels == 0..3

NoRet == [fn |-> "none", val |-> None]
LocInit == [level1 |-> -1, level2 |-> -1, response |-> <<>>, reads |-> <<>>,
            command |-> <<>>, n |-> 0, i |-> 0]
NoParsed == [def |-> None, fm |-> <<None, None, None>>, dna |-> None, id |-> None]
NoAssigns == [f \in Fields |-> 0]

\* the locals of a callee that has returned are gone
Clear(l) == [l EXCEPT !.response = <<>>, !.reads = <<>>, !.n = 0, !.command = <<>>]

Count(S) == [f \in Fields |-> assigns[f] + (IF f \in S THEN 1 ELSE 0)]

\* SelClient.__init__, up to the connection check
SelClient(validConnChecks) ==
    [check |-> validConnChecks,
     fid |-> <<>>, bfid |-> <<>>, cid |-> <<>>, devid |-> <<>>,
     partno |-> <<>>, config |-> <<>>,
     fmconfigcommand1 |-> FM_CONFIG_BLOCK,
     fmcommand1 |-> FM_DEMAND_CONFIG_BLOCK,
     fmconfigcommand2 |-> FM_PEAK_CONFIG_BLOCK,
     fmcommand2 |-> FAST_METER_REGULAR,
     fmconfigcommand3 |-> FAST_METER_DEMAND,
     fmcommand3 |-> FAST_METER_PEAK_DEMAND,
     fopcommandinfo |-> FO_CONFIG_BLOCK,
     fmsgcommandinfo |-> FAST_MSG_CONFIG_BLOCK,
     fastMeterDef |-> None, fastDemandDef |-> None, fastPkDemandDef |-> None,
     dnaDef |-> Unset]

InitWith(checks, calls) ==
    /\ \E c \in checks : self = SelClient(c)
    /\ \E b \in BOOLEAN :
         op = [name |-> "init", minAccLevel |-> 0, kw |-> DefaultKw,
               autoconfig_now |-> b]
    /\ pc = "vc_for"
    /\ stk = <<"init_verified">>
    /\ ret = NoRet
    /\ status = "running"
    /\ log = <<>>
    /\ loc = LocInit
    /\ parsed = NoParsed
    /\ assigns = NoAssigns
    /\ gen = "g1"
    /\ nops = calls
    /\ prev = self
    /\ connected = FALSE

Init == InitWith({DefaultChecks}, MaxOps)

(***************************************************************************)
(* Calls, returns and exceptions.                                          *)
(***************************************************************************)
Return(fn, v) ==
    /\ ret' = [fn |-> fn, val |-> v]
    /\ IF stk = <<>>
       THEN pc' = "idle" /\ stk' = stk /\ status' = "ok"
       ELSE pc' = Head(stk) /\ stk' = Tail(stk) /\ UNCHANGED status

\* no method of the client catches an exception: it reaches the caller, and
\* an exception out of the constructor leaves no client
Raise(kind) ==
    /\ pc' = IF op.name = "init" THEN "dead" ELSE "idle"
    /\ stk' = <<>>
    /\ status' = kind
    /\ ret' = NoRet

Write(b) == log' = Append(log, W(b))

\* a public call on the constructed client
Call(name, m, kw) ==
    /\ pc = "idle"
    /\ nops > 0
    /\ nops' = nops - 1
    /\ op' = [name |-> name, minAccLevel |-> m, kw |-> kw, autoconfig_now |-> FALSE]
    /\ \E g \in LaterGens(gen) : gen' = g
    /\ log' = <<>>
    /\ loc' = LocInit
    /\ parsed' = NoParsed
    /\ assigns' = NoAssigns
    /\ prev' = self
    /\ UNCHANGED connected


(***************************************************************************)
(* _verify_connection                                                      *)
(***************************************************************************)
\* the head of the for loop and the write of its body
\* one probe too many
BudgetLeft_inclusive(i, check) == i <= check

\* range(self.check) has another round for the i-th probe
BudgetLeft(i, check) == i < check

verify_connection_probe ==
    /\ pc = "vc_for"
    /\ IF BudgetLeft(loc.i, self.check)
       THEN /\ Write(CR)
            /\ loc' = [loc EXCEPT !.i = loc.i + 1]
            /\ pc' = "vc_r"
            /\ UNCHANGED <<stk, ret, status>>
       ELSE /\ Return("_verify_connection", connected)
            /\ UNCHANGED <<log, loc>>
    /\ UNCHANGED <<self, op, parsed, assigns, gen, nops, prev, connected>>

\* connected is set by a response that holds the level-0 marker
Connected(response) == Contains(response, LEVEL_0)

verify_connection_read ==
    /\ pc = "vc_r"
    /\ \E response \in Responses(LastWrite, gen) :
         /\ log' = Append(log, R)
         /\ loc' = [loc EXCEPT !.response = response,
                               !.reads = Append(loc.reads, response)]
         /\ IF Connected(response)
            THEN connected' = TRUE /\ Return("_verify_connection", TRUE)
            ELSE pc' = "vc_for" /\ UNCHANGED <<stk, ret, status, connected>>
    /\ UNCHANGED <<self, op, parsed, assigns, gen, nops, prev>>

(***************************************************************************)
(* __init__, after the defaults                                            *)
(***************************************************************************)
\* the result of the connection check is not looked at
Unverified_never(result) == FALSE

\* "if not self._verify_connection(): raise"
Unverified(result) == ~result

init_verified ==
    /\ pc = "init_verified"
    /\ IF Unverified(ret.val)
       THEN Raise("ConnectionUnverified")
       ELSE pc' = "q_w" /\ stk' = <<"init_quit">> /\ ret' = NoRet
                        /\ UNCHANGED status
    /\ loc' = LocInit
    /\ UNCHANGED <<self, op, log, parsed, assigns, gen, nops, prev, connected>>

init_quit ==
    /\ pc = "init_quit"
    /\ IF op.autoconfig_now
       THEN pc' = "al_w1" /\ stk' = <<"ac_lvl", "init_end">> /\ ret' = NoRet
                          /\ UNCHANGED status
       ELSE Return("__init__", None)
    /\ loc' = LocInit
    /\ UNCHANGED <<self, op, log, parsed, assigns, gen, nops, prev, connected>>

init_end ==
    /\ pc = "init_end"
    /\ Return("__init__", None)
    /\ UNCHANGED <<self, op, log, loc, parsed, assigns, gen, nops, prev, connected>>

(***************************************************************************)
(* access_level                                                            *)
(***************************************************************************)
\* the markers looked for in ascending order
LevelOf_ascending(resp) ==
    IF Contains(resp, LEVEL_1) THEN <<1, "ACC">>
    ELSE IF Contains(resp, LEVEL_2) THEN <<2, "2AC">>
    ELSE IF Contains(resp, LEVEL_C) THEN <<3, "CAL">>
    ELSE <<0, "">>

\* the level and its name, from the bytes of the two reads
LevelOf(resp) ==
    IF Contains(resp, LEVEL_C) THEN <<3, "CAL">>
    ELSE IF Contains(resp, LEVEL_2) THEN <<2, "2AC">>
    ELSE IF Contains(resp, LEVEL_1) THEN <<1, "ACC">>
    ELSE <<0, "">>

access_level ==
    /\ Call("access_level", 0, DefaultKw)
    /\ pc' = "al_w1" /\ stk' = <<>> /\ ret' = NoRet /\ status' = "running"
    /\ UNCHANGED self

access_level_write1 ==
    /\ pc = "al_w1"
    /\ Write(CR)
    /\ pc' = "al_r1"
    /\ UNCHANGED <<self, stk, ret, op, status, loc, parsed, assigns, gen, nops, prev, connected>>

access_level_read1 ==
    /\ pc = "al_r1"
    /\ \E c \in Responses(LastWrite, gen) :
         loc' = [loc EXCEPT !.response = c, !.reads = <<c>>]
    /\ log' = Append(log, R)
    /\ pc' = "al_w2"
    /\ UNCHANGED <<self, stk, ret, op, status, parsed, assigns, gen, nops, prev, connected>>

access_level_write2 ==
    /\ pc = "al_w2"
    /\ Write(CR)
    /\ pc' = "al_r2"
    /\ UNCHANGED <<self, stk, ret, op, status, loc, parsed, assigns, gen, nops, prev, connected>>

access_level_read2 ==
    /\ pc = "al_r2"
    /\ \E c \in Responses(LastWrite, gen) :
         /\ loc' = [loc EXCEPT !.response = loc.response \o c,
                               !.reads = Append(loc.reads, c)]
         /\ Return("access_level", LevelOf(loc.response \o c))
    /\ log' = Append(log, R)
    /\ UNCHANGED <<self, op, parsed, assigns, gen, nops, prev, connected>>

(***************************************************************************)
(* quit                                                                    *)
(***************************************************************************)
quit ==
    /\ Call("quit", 0, DefaultKw)
    /\ pc' = "q_w" /\ stk' = <<>> /\ ret' = NoRet /\ status' = "running"
    /\ UNCHANGED self

quit_write ==
    /\ pc = "q_w"
    /\ Write(QUIT)
    /\ pc' = "q_r"
    /\ UNCHANGED <<self, stk, ret, op, status, loc, parsed, assigns, gen, nops, prev, connected>>

\* the read repeated until a response holds the level-0 marker
quit_read_until_level_0 ==
    /\ pc = "q_r"
    /\ \E c \in Responses(LastWrite, gen) :
         /\ loc' = [loc EXCEPT !.response = c, !.n = loc.n + 1]
         /\ IF Contains(c, LEVEL_0) \/ loc.n + 1 >= MaxReads
            THEN Return("quit", None)
            ELSE UNCHANGED <<pc, stk, ret, status>>
    /\ log' = Append(log, R)
    /\ UNCHANGED <<self, op, parsed, assigns, gen, nops, prev, connected>>

quit_read ==
    /\ pc = "q_r"
    /\ \E c \in Responses(LastWrite, gen) :
         loc' = [loc EXCEPT !.response = c]
    /\ log' = Append(log, R)
    /\ Return("quit", None)
    /\ UNCHANGED <<self, op, parsed, assigns, gen, nops, prev, connected>>

(***************************************************************************)
(* access_level_1                                                          *)
(***************************************************************************)
access_level_1 ==
    /\ \E kw \in KwSet : Call("access_level_1", 0, kw)
    /\ pc' = "al_w1" /\ stk' = <<"a1_go">> /\ ret' = NoRet /\ status' = "running"
    /\ UNCHANGED self

\* the password follows the go-command when the queried level is 0
NeedsPass1(level) == level = 0

access_level_1_go ==
    /\ pc = "a1_go"
    /\ Write(GO_ACC)
    /\ loc' = [Clear(loc) EXCEPT !.level1 = ret.val[1]]
    /\ pc' = IF NeedsPass1(ret.val[1]) THEN "a1_pw" ELSE "a1_rd"
    /\ ret' = NoRet
    /\ UNCHANGED <<self, stk, op, status, parsed, assigns, gen, nops, prev, connected>>

\* the password without its line terminator
Pass1Bytes_noCR(kw) == kw.level_1_pass

\* the password transmission: the password and the line terminator
Pass1Bytes(kw) == kw.level_1_pass \o CR

access_level_1_pass ==
    /\ pc = "a1_pw"
    /\ Write(Pass1Bytes(op.kw))
    /\ pc' = "a1_rd"
    /\ UNCHANGED <<self, stk, ret, op, status, loc, parsed, assigns, gen, nops, prev, connected>>

\* the login succeeded unless the response holds the rejection marker
LoggedIn(resp) == ~Contains(resp, INVALID)

access_level_1_read ==
    /\ pc = "a1_rd"
    /\ \E resp \in Responses(LastWrite, gen) :
         /\ loc' = [loc EXCEPT !.response = resp]
         /\ Return("access_level_1", LoggedIn(resp))
    /\ log' = Append(log, R)
    /\ UNCHANGED <<self, op, parsed, assigns, gen, nops, prev, connected>>

(***************************************************************************)
(* access_level_2                                                          *)
(***************************************************************************)
access_level_2 ==
    /\ \E kw \in KwSet : Call("access_level_2", 0, kw)
    /\ pc' = "al_w1" /\ stk' = <<"a2_chk">> /\ ret' = NoRet /\ status' = "running"
    /\ UNCHANGED self

access_level_2_check ==
    /\ pc = "a2_chk"
    /\ loc' = [Clear(loc) EXCEPT !.level2 = ret.val[1]]
    /\ IF ret.val[1] = 0
       THEN pc' = "al_w1" /\ stk' = <<"a1_go", "a2_after1">> \o stk
       ELSE pc' = "a2_go" /\ UNCHANGED stk
    /\ ret' = NoRet
    /\ UNCHANGED <<self, op, status, log, parsed, assigns, gen, nops, prev, connected>>

\* the result of access_level_1 is not looked at
access_level_2_after1_ignored ==
    /\ pc = "a2_after1"
    /\ pc' = "a2_go" /\ ret' = NoRet /\ UNCHANGED <<stk, status>>
    /\ loc' = Clear(loc)
    /\ UNCHANGED <<self, op, log, parsed, assigns, gen, nops, prev, connected>>

access_level_2_after1 ==
    /\ pc = "a2_after1"
    /\ IF ~ret.val
       THEN Return("access_level_2", FALSE)
       ELSE pc' = "a2_go" /\ ret' = NoRet /\ UNCHANGED <<stk, status>>
    /\ loc' = Clear(loc)
    /\ UNCHANGED <<self, op, log, parsed, assigns, gen, nops, prev, connected>>

\* the password only from level 0, as in access_level_1
NeedsPass2_level_0(level) == level = 0

\* the 2AC password follows the go-command when the queried level is 0 or 1
NeedsPass2(level) == level \in {0, 1}

access_level_2_go ==
    /\ pc = "a2_go"
    /\ Write(GO_2AC)
    /\ pc' = IF NeedsPass2(loc.level2) THEN "a2_pw" ELSE "a2_rd"
    /\ UNCHANGED <<self, stk, ret, op, status, loc, parsed, assigns, gen, nops, prev, connected>>

Pass2Bytes(kw) == kw.level_2_pass \o CR

access_level_2_pass ==
    /\ pc = "a2_pw"
    /\ Write(Pass2Bytes(op.kw))
    /\ pc' = "a2_rd"
    /\ UNCHANGED <<self, stk, ret, op, status, loc, parsed, assigns, gen, nops, prev, connected>>

access_level_2_read ==
    /\ pc = "a2_rd"
    /\ \E resp \in Responses(LastWrite, gen) :
         /\ loc' = [loc EXCEPT !.response = resp]
         /\ Return("access_level_2", LoggedIn(resp))
    /\ log' = Append(log, R)
    /\ UNCHANGED <<self, op, parsed, assigns, gen, nops, prev, connected>>

(***************************************************************************)
(* _read_command_response: the loop test and one read of its body          *)
(***************************************************************************)
\* the loop test inverted: reading goes on while the code is there
Echoed_inverted(response, command) == ~Contains(response, command)

\* the loop of _read_command_response ends once the response holds the code
Echoed(response, command) == Contains(response, command)

\* each chunk replaces the response instead of being appended to it
read_command_response_last_chunk ==
    /\ pc = "rcr"
    /\ IF Echoed(loc.response, loc.command)
       THEN /\ Return("_read_command_response", loc.response)
            /\ UNCHANGED <<log, loc>>
       ELSE /\ loc.n < MaxReads
            /\ \E c \in Responses(LastWrite, gen) :
                 loc' = [loc EXCEPT !.response = c,
                                    !.reads = Append(loc.reads, c),
                                    !.n = loc.n + 1]
            /\ log' = Append(log, R)
            /\ UNCHANGED <<pc, stk, ret, status>>
    /\ UNCHANGED <<self, op, parsed, assigns, gen, nops, prev, connected>>

\* the loop gives up after its first read
read_command_response_one_attempt ==
    /\ pc = "rcr"
    /\ IF Echoed(loc.response, loc.command) \/ loc.n >= 1
       THEN /\ Return("_read_command_response", loc.response)
            /\ UNCHANGED <<log, loc>>
       ELSE /\ loc.n < MaxReads
            /\ \E c \in Responses(LastWrite, gen) :
                 loc' = [loc EXCEPT !.response = loc.response \o c,
                                    !.reads = Append(loc.reads, c),
                                    !.n = loc.n + 1]
            /\ log' = Append(log, R)
            /\ UNCHANGED <<pc, stk, ret, status>>
    /\ UNCHANGED <<self, op, parsed, assigns, gen, nops, prev, connected>>

read_command_response ==
    /\ pc = "rcr"
    /\ IF Echoed(loc.response, loc.command)
       THEN /\ Return("_read_command_response", loc.response)
            /\ UNCHANGED <<log, loc>>
       ELSE /\ loc.n < MaxReads
            /\ \E c \in Responses(LastWrite, gen) :
                 loc' = [loc EXCEPT !.response = loc.response \o c,
                                    !.reads = Append(loc.reads, c),
                                    !.n = loc.n + 1]
            /\ log' = Append(log, R)
            /\ UNCHANGED <<pc, stk, ret, status>>
    /\ UNCHANGED <<self, op, parsed, assigns, gen, nops, prev, connected>>


(***************************************************************************)
(* autoconfig                                                              *)
(***************************************************************************)
autoconfig ==
    /\ \E kw \in KwSet : Call("autoconfig", 0, kw)
    /\ pc' = "al_w1" /\ stk' = <<"ac_lvl">> /\ ret' = NoRet /\ status' = "running"
    /\ UNCHANGED self

\* at level 0 the ACC elevation runs first; its result is not looked at
autoconfig_level ==
    /\ pc = "ac_lvl"
    /\ IF ret.val[1] = 0
       THEN pc' = "al_w1" /\ stk' = <<"a1_go", "ac_def_w">> \o stk
       ELSE pc' = "ac_def_w" /\ UNCHANGED stk
    /\ ret' = NoRet
    /\ loc' = Clear(loc)
    /\ UNCHANGED <<self, op, status, log, parsed, assigns, gen, nops, prev, connected>>

autoconfig_definition_write ==
    /\ pc = "ac_def_w"
    /\ Write(RELAY_DEFENITION \o CR)
    /\ loc' = [Clear(loc) EXCEPT !.command = RELAY_DEFENITION]
    /\ pc' = "rcr" /\ stk' = <<"ac_def_p">> \o stk
    /\ ret' = NoRet
    /\ UNCHANGED <<self, op, status, parsed, assigns, gen, nops, prev, connected>>

\* the data command of the first variant taken from its configuration command
LoadDefinition_swapped(s, definition) ==
    [s EXCEPT
       !.fmconfigcommand1 = definition.fmcommandinfo[1].configcommand,
       !.fmcommand1 = definition.fmcommandinfo[1].configcommand,
       !.fmconfigcommand2 = definition.fmcommandinfo[2].configcommand,
       !.fmcommand2 = definition.fmcommandinfo[2].command,
       !.fmconfigcommand3 = definition.fmcommandinfo[3].configcommand,
       !.fmcommand3 = definition.fmcommandinfo[3].command,
       !.fopcommandinfo = definition.fopcommandinfo,
       !.fmsgcommandinfo = definition.fmsgcommandinfo]

\* the eight fields that the relay definition block sets
LoadDefinition(s, definition) ==
    [s EXCEPT
       !.fmconfigcommand1 = definition.fmcommandinfo[1].configcommand,
       !.fmcommand1 = definition.fmcommandinfo[1].command,
       !.fmconfigcommand2 = definition.fmcommandinfo[2].configcommand,
       !.fmcommand2 = definition.fmcommandinfo[2].command,
       !.fmconfigcommand3 = definition.fmcommandinfo[3].configcommand,
       !.fmcommand3 = definition.fmcommandinfo[3].command,
       !.fopcommandinfo = definition.fopcommandinfo,
       !.fmsgcommandinfo = definition.fmsgcommandinfo]

DefinitionFields == {"fmconfigcommand1", "fmcommand1", "fmconfigcommand2",
                     "fmcommand2", "fmconfigcommand3", "fmcommand3",
                     "fopcommandinfo", "fmsgcommandinfo"}

\* the definition is parsed and loaded, and autoconfig_fastmeter is called
autoconfig_definition_parse ==
    /\ pc = "ac_def_p"
    /\ LET definition == RelayDefinitionBlock(ret.val) IN
       IF Failed(definition)
       THEN /\ Raise("ParseError")
            /\ UNCHANGED <<self, log, parsed, assigns>>
       ELSE /\ self' = LoadDefinition(self, definition)
            /\ parsed' = [parsed EXCEPT !.def = definition]
            /\ assigns' = Count(DefinitionFields)
            /\ log' = Append(log, P("def"))
            /\ pc' = "fm1_w" /\ stk' = <<"ac_fm2">> \o stk
            /\ ret' = NoRet
            /\ UNCHANGED status
    /\ loc' = Clear(loc)
    /\ UNCHANGED <<op, gen, nops, prev, connected>>

autoconfig_call_demand ==
    /\ pc = "ac_fm2"
    /\ pc' = "fm2_w" /\ stk' = <<"ac_fm3">> \o stk
    /\ ret' = NoRet
    /\ loc' = Clear(loc)
    /\ UNCHANGED <<self, op, status, log, parsed, assigns, gen, nops, prev, connected>>

autoconfig_call_peakdemand ==
    /\ pc = "ac_fm3"
    /\ pc' = "fm3_w" /\ stk' = <<"ac_dna_w">> \o stk
    /\ ret' = NoRet
    /\ loc' = Clear(loc)
    /\ UNCHANGED <<self, op, status, log, parsed, assigns, gen, nops, prev, connected>>

autoconfig_dna_write ==
    /\ pc = "ac_dna_w"
    /\ Write(DNA)
    /\ pc' = "ac_dna_r"
    /\ ret' = NoRet
    /\ loc' = Clear(loc)
    /\ UNCHANGED <<self, stk, op, status, parsed, assigns, gen, nops, prev, connected>>

autoconfig_dna_read ==
    /\ pc = "ac_dna_r"
    /\ \E c \in Responses(LastWrite, gen) :
         LET dna == RelayDnaBlock(c) IN
         IF Failed(dna)
         THEN /\ Raise("ParseError")
              /\ log' = Append(log, R)
              /\ UNCHANGED <<self, parsed, assigns>>
         ELSE /\ self' = [self EXCEPT !.dnaDef = dna]
              /\ parsed' = [parsed EXCEPT !.dna = dna]
              /\ assigns' = Count({"dnaDef"})
              /\ log' = log \o <<R, P("dna")>>
              /\ pc' = "ac_id_w"
              /\ UNCHANGED <<stk, ret, status>>
    /\ UNCHANGED <<op, loc, gen, nops, prev, connected>>

autoconfig_id_write ==
    /\ pc = "ac_id_w"
    /\ Write(ID)
    /\ pc' = "ac_id_r"
    /\ UNCHANGED <<self, stk, ret, op, status, loc, parsed, assigns, gen, nops, prev, connected>>

\* the six identity fields that the ID block sets
StoreId(s, id_block) ==
    [s EXCEPT !.fid = id_block.FID, !.bfid = id_block.BFID, !.cid = id_block.CID,
              !.devid = id_block.DEVID, !.partno = id_block.PARTNO,
              !.config = id_block.CONFIG]

IdFields == {"fid", "bfid", "cid", "devid", "partno", "config"}

autoconfig_id_read ==
    /\ pc = "ac_id_r"
    /\ \E c \in Responses(LastWrite, gen) :
         LET id_block == RelayIdBlock(c) IN
         IF Failed(id_block)
         THEN /\ Raise("ParseError")
              /\ log' = Append(log, R)
              /\ UNCHANGED <<self, parsed, assigns>>
         ELSE /\ self' = StoreId(self, id_block)
              /\ parsed' = [parsed EXCEPT !.id = id_block]
              /\ assigns' = Count(IdFields)
              /\ log' = log \o <<R, P("id")>>
              /\ Return("autoconfig", StoreId(self, id_block).fid)
    /\ UNCHANGED <<op, loc, gen, nops, prev, connected>>

(***************************************************************************)
(* autoconfig_fastmeter, autoconfig_fastmeter_demand and                   *)
(* autoconfig_fastmeter_peakdemand: k = 1, 2, 3                            *)
(***************************************************************************)
FmLabel(k, step) == <<<<"fm1_w", "fm1_r">>, <<"fm2_w", "fm2_r">>,
                      <<"fm3_w", "fm3_r">>>>[k][step]
FmName(k) == <<"autoconfig_fastmeter", "autoconfig_fastmeter_demand",
               "autoconfig_fastmeter_peakdemand">>[k]
FmField(k) == <<"fastMeterDef", "fastDemandDef", "fastPkDemandDef">>[k]

\* the configuration commands of the constructor in place of the stored ones
ConfigCommand_default(s, k) ==
    <<FM_CONFIG_BLOCK, FM_PEAK_CONFIG_BLOCK, FAST_METER_DEMAND>>[k]

\* the configuration command each of the three methods writes
ConfigCommand(s, k) ==
    IF k = 1 THEN s.fmconfigcommand1
    ELSE IF k = 2 THEN s.fmconfigcommand2
    ELSE s.fmconfigcommand3

\* a block is stored only where none is stored yet
StoreConfig_merge(s, k, block) ==
    IF k = 1 THEN (IF IsNone(s.fastMeterDef) THEN [s EXCEPT !.fastMeterDef = block] ELSE s)
    ELSE IF k = 2
    THEN (IF IsNone(s.fastDemandDef) THEN [s EXCEPT !.fastDemandDef = block] ELSE s)
    ELSE (IF IsNone(s.fastPkDemandDef) THEN [s EXCEPT !.fastPkDemandDef = block] ELSE s)

\* the field each of the three methods stores its block in
StoreConfig(s, k, block) ==
    IF k = 1 THEN [s EXCEPT !.fastMeterDef = block]
    ELSE IF k = 2 THEN [s EXCEPT !.fastDemandDef = block]
    ELSE [s EXCEPT !.fastPkDemandDef = block]

FmCall(k) ==
    /\ Call(FmName(k), 0, DefaultKw)
    /\ pc' = FmLabel(k, 1) /\ stk' = <<>> /\ ret' = NoRet /\ status' = "running"
    /\ UNCHANGED self

FmWrite(k) ==
    /\ pc = FmLabel(k, 1)
    /\ Write(ConfigCommand(self, k) \o CR)
    /\ pc' = FmLabel(k, 2)
    /\ UNCHANGED <<self, stk, ret, op, status, loc, parsed, assigns, gen, nops, prev, connected>>

\* the command echoed by the block is stored as the data command as well
FmRead_stores_code(k) ==
    /\ pc = FmLabel(k, 2)
    /\ \E c \in Responses(LastWrite, gen) :
         LET block == FastMeterConfigurationBlock(c) IN
         IF Failed(block)
         THEN /\ Raise("ParseError")
              /\ log' = Append(log, R)
              /\ UNCHANGED <<self, parsed, assigns>>
         ELSE /\ self' = [StoreConfig(self, k, block) EXCEPT !.fmcommand1 = block.command]
              /\ parsed' = [parsed EXCEPT !.fm[k] = block]
              /\ assigns' = Count({FmField(k)})
              /\ log' = log \o <<R, P("cfg")>>
              /\ Return(FmName(k), None)
    /\ UNCHANGED <<op, loc, gen, nops, prev, connected>>

FmRead(k) ==
    /\ pc = FmLabel(k, 2)
    /\ \E c \in Responses(LastWrite, gen) :
         LET block == FastMeterConfigurationBlock(c) IN
         IF Failed(block)
         THEN /\ Raise("ParseError")
              /\ log' = Append(log, R)
              /\ UNCHANGED <<self, parsed, assigns>>
         ELSE /\ self' = StoreConfig(self, k, block)
              /\ parsed' = [parsed EXCEPT !.fm[k] = block]
              /\ assigns' = Count({FmField(k)})
              /\ log' = log \o <<R, P("cfg")>>
              /\ Return(FmName(k), None)
    /\ UNCHANGED <<op, loc, gen, nops, prev, connected>>

autoconfig_fastmeter == FmCall(1)
autoconfig_fastmeter_write == FmWrite(1)
autoconfig_fastmeter_read == FmRead(1)
autoconfig_fastmeter_demand == FmCall(2)
autoconfig_fastmeter_demand_write == FmWrite(2)
autoconfig_fastmeter_demand_read == FmRead(2)
autoconfig_fastmeter_peakdemand == FmCall(3)
autoconfig_fastmeter_peakdemand_write == FmWrite(3)
autoconfig_fastmeter_peakdemand_read == FmRead(3)

(***************************************************************************)
(* poll_fast_meter                                                         *)
(***************************************************************************)
\* a check of the demand configuration in place of the regular one
Configured_demand(s) == ~IsNone(s.fastDemandDef)

\* the client counts as configured when the regular configuration is there
Configured(s) == ~IsNone(s.fastMeterDef)

\* the check of the configuration, and the elevation minAccLevel asks for
poll_fast_meter ==
    /\ \E m \in MinAccLevels, kw \in KwSet : Call("poll_fast_meter", m, kw)
    /\ IF ~Configured(self)
       THEN pc' = "idle" /\ stk' = <<>> /\ status' = "NotConfigured" /\ ret' = NoRet
       ELSE /\ ret' = NoRet /\ status' = "running"
            /\ IF op'.minAccLevel = 1
               THEN pc' = "al_w1" /\ stk' = <<"a1_go", "p_w">>
               ELSE IF op'.minAccLevel = 2
               THEN pc' = "al_w1" /\ stk' = <<"a2_chk", "p_w">>
               ELSE pc' = "p_w" /\ stk' = <<>>
    /\ UNCHANGED self

\* the poll is given up when the elevation returned false
poll_fast_meter_write_fail_fast ==
    /\ pc = "p_w"
    /\ IF ret.fn # "none" /\ ret.val = FALSE
       THEN Raise("ElevationFailed") /\ UNCHANGED <<log, loc>>
       ELSE /\ Write(self.fmcommand1 \o CR)
            /\ loc' = [Clear(loc) EXCEPT !.command = self.fmcommand1]
            /\ pc' = "rcr" /\ stk' = <<"p_parse">> \o stk
            /\ ret' = NoRet
            /\ UNCHANGED status
    /\ UNCHANGED <<self, op, parsed, assigns, gen, nops, prev, connected>>

poll_fast_meter_write ==
    /\ pc = "p_w"
    /\ Write(self.fmcommand1 \o CR)
    /\ loc' = [Clear(loc) EXCEPT !.command = self.fmcommand1]
    /\ pc' = "rcr" /\ stk' = <<"p_parse">> \o stk
    /\ ret' = NoRet
    /\ UNCHANGED <<self, op, status, parsed, assigns, gen, nops, prev, connected>>

\* dnaDef is an attribute only once autoconfig has stored it
poll_fast_meter_parse ==
    /\ pc = "p_parse"
    /\ IF self.dnaDef = Unset
       THEN Raise("AttributeError") /\ UNCHANGED log
       ELSE LET response == FastMeterBlock(ret.val, self.fastMeterDef, self.dnaDef) IN
            IF Failed(response)
            THEN Raise("ParseError") /\ UNCHANGED log
            ELSE /\ log' = Append(log, P("dat"))
                 /\ Return("poll_fast_meter", response)
    /\ UNCHANGED <<self, op, loc, parsed, assigns, gen, nops, prev, connected>>

(***************************************************************************)
(* The specifications.                                                     *)
(***************************************************************************)
Next ==
    \/ verify_connection_probe
    \/ verify_connection_read
    \/ init_verified
    \/ init_quit
    \/ init_end
    \/ access_level
    \/ access_level_write1
    \/ access_level_read1
    \/ access_level_write2
    \/ access_level_read2
    \/ quit
    \/ quit_write
    \/ quit_read
    \/ access_level_1
    \/ access_level_1_go
    \/ access_level_1_pass
    \/ access_level_1_read
    \/ access_level_2
    \/ access_level_2_check
    \/ access_level_2_after1
    \/ access_level_2_go
    \/ access_level_2_pass
    \/ access_level_2_read
    \/ read_command_response
    \/ autoconfig
    \/ autoconfig_level
    \/ autoconfig_definition_write
    \/ autoconfig_definition_parse
    \/ autoconfig_call_demand
    \/ autoconfig_call_peakdemand
    \/ autoconfig_dna_write
    \/ autoconfig_dna_read
    \/ autoconfig_id_write
    \/ autoconfig_id_read
    \/ autoconfig_fastmeter
    \/ autoconfig_fastmeter_write
    \/ autoconfig_fastmeter_read
    \/ autoconfig_fastmeter_demand
    \/ autoconfig_fastmeter_demand_write
    \/ autoconfig_fastmeter_demand_read
    \/ autoconfig_fastmeter_peakdemand
    \/ autoconfig_fastmeter_peakdemand_write
    \/ autoconfig_fastmeter_peakdemand_read
    \/ poll_fast_meter
    \/ poll_fast_meter_write
    \/ poll_fast_meter_parse

Spec == Init /\ [][Next]_vars

\* the constructor with every attempt budget from 0 to MaxChecks, and one
\* public call on the client it leaves
InitChecks == InitWith(0..MaxChecks, 1)
SpecChecks == InitChecks /\ [][Next]_vars


\* the constructor and one public call, every read-until call returning and
\* the loop of _read_command_response going on whenever it can
InitLoop == InitWith({DefaultChecks}, 1)
SpecLoop == InitLoop /\ [][Next]_vars /\ WF_vars(read_command_response)

(***************************************************************************)
(* common.int_to_bool_list(number, byte_like, reverse): a character of the *)
(* binary string is "0" or "1", an entry of the list a boolean.            *)
(***************************************************************************)
\* the largest of the small numbers converted
MaxNumber == 300
\* the minimum width of format(number, '04b')
FormatWidth == 4
\* the list of a byte_like call is filled up to a multiple of 8 entries
ByteBits == 8

RECURSIVE Pow2(_)
Pow2(e) == IF e = 0 THEN 1 ELSE 2 * Pow2(e - 1)

\* the numbers converted: the small ones, and numbers around 2^15, 2^16 and
\* 2^17, whose binary strings have 15 to 18 digits
Numbers == (0..MaxNumber) \cup {Pow2(e) + k : e \in 15..17, k \in -1..1}

\* the binary digits of a number, most significant first
RECURSIVE BinDigits(_)
BinDigits(number) ==
    IF number < 2 THEN <<IF number = 1 THEN "1" ELSE "0">>
    ELSE BinDigits(number \div 2) \o <<IF number % 2 = 1 THEN "1" ELSE "0">>

\* the binary string with no zero fill
Format04b_plain(number) == BinDigits(number)

\* format(number, '04b'): the binary digits, zero-filled on the left to four
Format04b(number) ==
    LET digits == BinDigits(number) IN
    IF Len(digits) < FormatWidth
    THEN [i \in 1..(FormatWidth - Len(digits)) |-> "0"] \o digits
    ELSE digits

\* s[::-1] and list.reverse()
Reversed(s) == [i \in 1..Len(s) |-> s[Len(s) + 1 - i]]

\* the string is taken as it is, most significant digit first
BoolList_msb_first(bin_string) ==
    [i \in 1..Len(bin_string) |-> bin_string[i] = "1"]

\* [x == '1' for x in bin_string[::-1]]
BoolList(bin_string) ==
    [i \in 1..Len(bin_string) |-> Reversed(bin_string)[i] = "1"]

\* the list filled with False up to the next multiple of 8 entries, when its
\* length is not one already
Extended(bin_list) ==
    IF Len(bin_list) % ByteBits # 0
    THEN LET len_needed == ((Len(bin_list) \div ByteBits) + 1) * ByteBits IN
         bin_list \o [i \in 1..(len_needed - Len(bin_list)) |-> FALSE]
    ELSE bin_list

\* the function as a whole
IntToBoolList(number, byte_like, reverse) ==
    LET bin_list == BoolList(Format04b(number))
        extended == IF byte_like THEN Extended(bin_list) ELSE bin_list
    IN IF reverse THEN Reversed(extended) ELSE extended

\* a call of the function with arguments from the bounded sets
InitBits ==
    /\ \E number \in Numbers, byte_like \in BOOLEAN, reverse \in BOOLEAN :
          op = [name |-> "int_to_bool_list", number |-> number,
                byte_like |-> byte_like, reverse |-> reverse]
    /\ pc = "itb_format"
    /\ stk = <<>>
    /\ ret = NoRet
    /\ status = "running"
    /\ loc = [bin_string |-> <<>>, bin_list |-> <<>>]
    /\ self = None
    /\ prev = None
    /\ log = <<>>
    /\ parsed = NoParsed
    /\ assigns = NoAssigns
    /\ gen = "g1"
    /\ nops = 0
    /\ connected = FALSE

int_to_bool_list_format ==
    /\ pc = "itb_format"
    /\ loc' = [loc EXCEPT !.bin_string = Format04b(op.number)]
    /\ pc' = "itb_list"
    /\ UNCHANGED <<self, stk, ret, op, status, log, parsed, assigns, gen, nops, prev, connected>>

int_to_bool_list_list ==
    /\ pc = "itb_list"
    /\ loc' = [loc EXCEPT !.bin_list = BoolList(loc.bin_string)]
    /\ pc' = "itb_extend"
    /\ UNCHANGED <<self, stk, ret, op, status, log, parsed, assigns, gen, nops, prev, connected>>

int_to_bool_list_extend ==
    /\ pc = "itb_extend"
    /\ loc' = [loc EXCEPT !.bin_list = IF op.byte_like THEN Extended(loc.bin_list)
                                       ELSE loc.bin_list]
    /\ pc' = "itb_reverse"
    /\ UNCHANGED <<self, stk, ret, op, status, log, parsed, assigns, gen, nops, prev, connected>>

int_to_bool_list_reverse ==
    /\ pc = "itb_reverse"
    /\ LET bin_list == IF op.reverse THEN Reversed(loc.bin_list) ELSE loc.bin_list IN
       /\ loc' = [loc EXCEPT !.bin_list = bin_list]
       /\ Return("int_to_bool_list", bin_list)
    /\ UNCHANGED <<self, op, log, parsed, assigns, gen, nops, prev, connected>>

NextBits ==
    \/ int_to_bool_list_format
    \/ int_to_bool_list_list
    \/ int_to_bool_list_extend
    \/ int_to_bool_list_reverse

SpecBits == InitBits /\ [][NextBits]_vars

(***************************************************************************)
(* Properties.                                                             *)
(***************************************************************************)
\* C1: poll_fast_meter on a client whose regular fast-meter configuration
\* is absent ends with the not-configured error whatever minAccLevel is, and
\* writes nothing to the transport.
C1_PollUnconfiguredFailsSilently ==
    (op.name = "poll_fast_meter" /\ IsNone(self.fastMeterDef)) =>
        /\ pc = "idle"
        /\ status = "NotConfigured"
        /\ log = <<>>

C1_Witness ==
    /\ op.name = "poll_fast_meter"
    /\ status = "NotConfigured"
    /\ op.minAccLevel = 2
    /\ IsNone(self.fastMeterDef)

\* C2: when autoconfig returns, every stored command code is the matching
\* entry of the relay definition block parsed in this run, the three block
\* configurations, the DNA definition and the identity are the parser
\* results of this run, each field was assigned exactly once, and the
\* returned value is the stored FID.
C2_AutoconfigStoresParsedBlocks ==
    ret.fn = "autoconfig" =>
        /\ ~IsNone(parsed.def) /\ ~IsNone(parsed.dna) /\ ~IsNone(parsed.id)
        /\ \A k \in 1..3 : ~IsNone(parsed.fm[k])
        /\ self.fmconfigcommand1 = parsed.def.fmcommandinfo[1].configcommand
        /\ self.fmcommand1 = parsed.def.fmcommandinfo[1].command
        /\ self.fmconfigcommand2 = parsed.def.fmcommandinfo[2].configcommand
        /\ self.fmcommand2 = parsed.def.fmcommandinfo[2].command
        /\ self.fmconfigcommand3 = parsed.def.fmcommandinfo[3].configcommand
        /\ self.fmcommand3 = parsed.def.fmcommandinfo[3].command
        /\ self.fopcommandinfo = parsed.def.fopcommandinfo
        /\ self.fmsgcommandinfo = parsed.def.fmsgcommandinfo
        /\ self.fastMeterDef = parsed.fm[1]
        /\ self.fastDemandDef = parsed.fm[2]
        /\ self.fastPkDemandDef = parsed.fm[3]
        /\ self.dnaDef = parsed.dna
        /\ self.fid = parsed.id.FID /\ self.bfid = parsed.id.BFID
        /\ self.cid = parsed.id.CID /\ self.devid = parsed.id.DEVID
        /\ self.partno = parsed.id.PARTNO /\ self.config = parsed.id.CONFIG
        /\ \A f \in Fields : assigns[f] = 1
        /\ ret.val = self.fid

C2_Witness ==
    /\ ret.fn = "autoconfig"
    /\ op.name = "autoconfig"
    /\ status = "ok"
    /\ self.fid = <<"FID", "g2">>

\* the writes of an autoconfig run that are neither probes nor part of a
\* login nor the constructor's quit: its requests
IsRequest(e) ==
    /\ e.k = "w"
    /\ e.b \notin {CR, QUIT, GO_ACC, Pass1Bytes(op.kw)}
Requests == SelectSeq(log, IsRequest)
RequestAt == {j \in 1..Len(log) : IsRequest(log[j])}
RunsAutoconfig ==
    \/ op.name = "autoconfig"
    \/ op.name = "init" /\ op.autoconfig_now
ExpectedRequests(definition) ==
    <<RELAY_DEFENITION \o CR,
      definition.fmcommandinfo[1].configcommand \o CR,
      definition.fmcommandinfo[2].configcommand \o CR,
      definition.fmcommandinfo[3].configcommand \o CR,
      DNA, ID>>
ExpectedParses == <<"def", "cfg", "cfg", "cfg", "dna", "id">>

\* C3: the requests of an autoconfig run are written in the order relay
\* definition, regular, demand and peak-demand configuration, DNA, ID; each
\* request but the first is written right after the parse of the response
\* to the one before it, that response having been read; and the three
\* configuration requests carry the codes of the definition block that this
\* run parsed.
C3_AutoconfigRequestOrder ==
    RunsAutoconfig =>
        /\ Len(Requests) <= 6
        /\ Len(Requests) >= 1 => Requests[1].b = RELAY_DEFENITION \o CR
        /\ Len(Requests) >= 2 =>
              /\ ~IsNone(parsed.def)
              /\ \A i \in 1..Len(Requests) :
                    Requests[i].b = ExpectedRequests(parsed.def)[i]
        /\ \A j \in RequestAt :
              LET n == Cardinality({i \in RequestAt : i < j}) IN
              n >= 1 =>
                 LET i == CHOOSE x \in RequestAt :
                            x < j /\ \A y \in RequestAt : y < j => y <= x
                 IN /\ log[j - 1] = P(ExpectedParses[n])
                    /\ \E r \in (i + 1)..(j - 2) : log[r].k = "r"
                    /\ \A x \in (i + 1)..(j - 1) : log[x].k # "w"

C3_Witness ==
    /\ op.name = "autoconfig"
    /\ status = "ok"
    /\ Len(Requests) = 6
    /\ prev.fmconfigcommand2 = ConfigCode("g1", 2)
    /\ self.fmconfigcommand2 = ConfigCode("g2", 2)

\* every field of s is as a completed run against a relay of generation g
\* leaves it
ConfiguredBy(s, g) ==
    /\ s.fid = <<"FID", g>> /\ s.bfid = <<"BFID", g>> /\ s.cid = <<"CID", g>>
    /\ s.devid = <<"DEVID", g>> /\ s.partno = <<"PARTNO", g>>
    /\ s.config = <<"CONFIG", g>>
    /\ s.fmconfigcommand1 = ConfigCode(g, 1) /\ s.fmcommand1 = DataCode(g, 1)
    /\ s.fmconfigcommand2 = ConfigCode(g, 2) /\ s.fmcommand2 = DataCode(g, 2)
    /\ s.fmconfigcommand3 = ConfigCode(g, 3) /\ s.fmcommand3 = DataCode(g, 3)
    /\ s.fopcommandinfo = <<"fop", g>> /\ s.fmsgcommandinfo = <<"fmsg", g>>
    /\ s.fastMeterDef = [tag |-> "cfg", command |-> ConfigCode(g, 1), gen |-> g]
    /\ s.fastDemandDef = [tag |-> "cfg", command |-> ConfigCode(g, 2), gen |-> g]
    /\ s.fastPkDemandDef = [tag |-> "cfg", command |-> ConfigCode(g, 3), gen |-> g]
    /\ s.dnaDef = [tag |-> "dna", gen |-> g]

\* C4: when autoconfig returns on a client whose fields are those of an
\* earlier complete run, from a relay whose blocks now differ, no stored
\* field holds the value it had before the call: each holds the value parsed
\* in this run.
C4_RerunReplacesEverything ==
    (ret.fn = "autoconfig" /\ op.name = "autoconfig"
       /\ \E g \in Gens : ConfiguredBy(prev, g) /\ parsed.id.FID # <<"FID", g>>) =>
        /\ \A f \in Fields : self[f] # prev[f]
        /\ self.fastMeterDef = parsed.fm[1]
        /\ self.fastDemandDef = parsed.fm[2]
        /\ self.fastPkDemandDef = parsed.fm[3]
        /\ self.dnaDef = parsed.dna
        /\ self = StoreId(LoadDefinition(self, parsed.def), parsed.id)

C4_Witness ==
    /\ ret.fn = "autoconfig" /\ op.name = "autoconfig"
    /\ ConfiguredBy(prev, "g1")
    /\ self.fid = <<"FID", "g2">>

Marker(level) == <<LEVEL_1, LEVEL_2, LEVEL_C>>[level]
LevelName(level) == <<"ACC", "2AC", "CAL">>[level]

\* C5: access_level returns (0, "") when the bytes of its two reads hold
\* none of the markers of ACC, 2AC and CAL, and otherwise the highest level
\* whose marker they hold.
C5_AccessLevelIsHighestMarker ==
    ret.fn = "access_level" =>
        LET present == {l \in 1..3 : Contains(loc.response, Marker(l))} IN
        /\ Len(loc.reads) = 2
        /\ loc.response = loc.reads[1] \o loc.reads[2]
        /\ present = {} => ret.val = <<0, "">>
        /\ present # {} =>
              \E l \in present :
                 /\ \A m \in present : m <= l
                 /\ ret.val = <<l, LevelName(l)>>

C5_Witness ==
    /\ ret.fn = "access_level"
    /\ Contains(loc.reads[1], LEVEL_C)
    /\ Contains(loc.reads[2], LEVEL_1)
    /\ ret.val = <<3, "CAL">>


\* C6: access_level_1 that finds level 0 writes the ACC go-command, then the
\* password with the line terminator, once, then reads the response; it
\* returns false exactly when that response holds "Invalid".
C6_Level1LoginFromLevel0 ==
    (ret.fn = "access_level_1" /\ loc.level1 = 0) =>
        /\ Len(log) >= 7
        /\ SubSeq(log, Len(log) - 6, Len(log)) =
              <<W(CR), R, W(CR), R, W(<<"ACC", "CR">>),
                W(op.kw.level_1_pass \o <<"CR">>), R>>
        /\ Cardinality({j \in 1..Len(log) :
                          log[j].k = "w" /\ Contains(log[j].b, op.kw.level_1_pass)}) = 1
        /\ ret.val = ~Contains(loc.response, <<"Invalid">>)

C6_Witness ==
    /\ ret.fn = "access_level_1"
    /\ op.name = "access_level_1"
    /\ loc.level1 = 0
    /\ op.kw.level_1_pass = <<"pwA">>
    /\ Contains(loc.response, INVALID)
    /\ ret.val = FALSE

\* C7: when _verify_connection returns, it has written one carriage return
\* per response read and at most self.check of them, no response before the
\* last holds the level-0 marker, it returns true exactly when the last one
\* does, it returns false only after self.check probes, and with a budget
\* of 0 it has written nothing and returns false.
C7_VerifyConnectionBudget ==
    ret.fn = "_verify_connection" =>
        LET n == Len(loc.reads) IN
        /\ n <= self.check
        /\ log = [j \in 1..(2 * n) |-> IF j % 2 = 1 THEN W(CR) ELSE R]
        /\ \A j \in 1..(n - 1) : ~Contains(loc.reads[j], LEVEL_0)
        /\ ret.val = (n > 0 /\ Contains(loc.reads[n], LEVEL_0))
        /\ ~ret.val => n = self.check
        /\ self.check = 0 => (log = <<>> /\ ret.val = FALSE)

C7_Witness ==
    /\ ret.fn = "_verify_connection"
    /\ self.check = 2
    /\ Len(loc.reads) = 2
    /\ ret.val = TRUE

C9_AbortedAutoconfigNotReady ==
    [][(/\ pc = "idle" /\ op.name = "autoconfig" /\ status = "ParseError"
        /\ IsNone(prev.fastMeterDef)
        /\ op'.name = "poll_fast_meter") => status' = "NotConfigured"]_vars

\* C10: when autoconfig is aborted by the configuration block of one of the
\* three variants, the configuration requests of all three variants have
\* been written and the blocks of the other two are stored.
C10_VariantsIndependent ==
    (/\ pc = "idle" /\ op.name = "autoconfig" /\ status = "ParseError"
     /\ ~IsNone(parsed.def) /\ \E k \in 1..3 : IsNone(parsed.fm[k])) =>
        \E k \in 1..3 :
           /\ IsNone(parsed.fm[k])
           /\ \A j \in 1..3 :
                 \E x \in 1..Len(log) :
                    log[x] = W(parsed.def.fmcommandinfo[j].configcommand \o CR)
           /\ \A j \in (1..3) \ {k} :
                 /\ ~IsNone(parsed.fm[j])
                 /\ StoreConfig(self, j, parsed.fm[j]) = self

\* C11: whenever a call of autoconfig has ended, by return or by error, on a
\* client that held the fields of one complete earlier run, the stored
\* command codes, block configurations, DNA definition and identity are all
\* those of one and the same run: the earlier one or this one.
C11_ReplacementIsAtomic ==
    (/\ pc = "idle" /\ op.name = "autoconfig"
     /\ \E g \in Gens : ConfiguredBy(prev, g)) =>
        \E g \in Gens : ConfiguredBy(self, g)

\* the last events of the log are a quit followed by nothing but the two
\* probes of one access_level call
LevelQueriedAfterQuit ==
    /\ ret.fn = "access_level"
    /\ Len(log) >= 6
    /\ SubSeq(log, Len(log) - 5, Len(log)) = <<W(QUIT), R, W(CR), R, W(CR), R>>

QuitWritesOnceReadsOnce ==
    ret.fn = "quit" =>
        /\ Len(log) >= 2
        /\ SubSeq(log, Len(log) - 1, Len(log)) = <<W(QUIT), R>>
        /\ Cardinality({j \in 1..Len(log) : log[j] = W(QUIT)}) = 1
        /\ op.name = "quit" => log = <<W(QUIT), R>>

RECURSIVE Joined(_)
Joined(chunks) ==
    IF chunks = <<>> THEN <<>> ELSE Head(chunks) \o Joined(Tail(chunks))

\* the events of the log after the last write of the bytes b
SinceWrite(b) ==
    LET at == {j \in 1..Len(log) : log[j] = W(b)} IN
    IF at = {} THEN <<>>
    ELSE SubSeq(log, (CHOOSE j \in at : \A i \in at : i <= j) + 1, Len(log))

\* C13: in poll_fast_meter, after the fast-meter command is written, the
\* response is the chunks read since that write joined in arrival order;
\* reading goes on only while the joined bytes lack the issued command code,
\* also when the code straddles two chunks; the bytes handed to the parser
\* are all the chunks read since the write and hold the code; they are
\* parsed with the stored fastMeterDef and the stored DNA definition, and
\* the parser's result is what poll_fast_meter returns.
C13_PollReadsUntilCommandEchoed ==
    (op.name = "poll_fast_meter" /\ loc.command # <<>>) =>
        /\ loc.command = self.fmcommand1
        /\ pc \in {"rcr", "p_parse", "idle"} =>
              /\ loc.response = Joined(loc.reads)
              /\ SinceWrite(loc.command \o CR) \in
                    {[j \in 1..Len(loc.reads) |-> R],
                     [j \in 1..Len(loc.reads) |-> R] \o <<P("dat")>>}
              /\ \A j \in 0..(Len(loc.reads) - 1) :
                    ~Contains(Joined(SubSeq(loc.reads, 1, j)), loc.command)
        /\ pc = "p_parse" =>
              /\ ret.val = Joined(loc.reads)
              /\ Contains(ret.val, loc.command)
        /\ ret.fn = "poll_fast_meter" =>
              /\ Contains(Joined(loc.reads), loc.command)
              /\ ret.val = FastMeterBlock(Joined(loc.reads), self.fastMeterDef,
                                          self.dnaDef)
              /\ ret.val.tag = "reading"
              /\ ret.val.fmdef = self.fastMeterDef
              /\ ret.val.dnadef = self.dnaDef

C13_Witness ==
    /\ ret.fn = "poll_fast_meter"
    /\ Len(loc.reads) = 2
    /\ ~Contains(loc.reads[1], loc.command)
    /\ ~Contains(loc.reads[2], loc.command)
    /\ ret.val.data = "g2"

\* a poll of a configured client: its command write, the reads after it and
\* the data it returns
PollWritesOnceAndReads ==
    (op.name = "poll_fast_meter" /\ Configured(self)) =>
        LET command == self.fmcommand1 \o CR
            n == Cardinality({j \in 1..Len(log) : log[j] = W(command)})
        IN /\ n <= 1
           /\ pc \in {"rcr", "p_parse", "idle"} => n = 1
           /\ pc \in {"p_parse", "idle"} =>
                 /\ SinceWrite(command) # <<>>
                 /\ Head(SinceWrite(command)) = R
                 /\ loc.reads # <<>>
           /\ ret.fn = "poll_fast_meter" =>
                 /\ ret.val = FastMeterBlock(Joined(loc.reads), self.fastMeterDef,
                                             self.dnaDef)
                 /\ ret.val.data = gen

\* C14: every poll_fast_meter of a configured client writes the fast-meter
\* command exactly once and reads at least once after that write; a poll
\* called right after a poll that returned starts with nothing read and
\* nothing returned and goes to the transport again, so k polls make k
\* command writes; and the data a poll returns are those the relay sent in
\* the reads of that poll.
C14_PollNeverCached ==
    [][/\ PollWritesOnceAndReads'
       /\ (/\ pc = "idle" /\ op.name = "poll_fast_meter" /\ status = "ok"
           /\ op'.name = "poll_fast_meter" /\ nops' # nops) =>
             /\ pc' # "idle"
             /\ ret' = NoRet /\ log' = <<>>
             /\ loc'.reads = <<>> /\ loc'.response = <<>>]_vars

C14_Witness ==
    /\ ret.fn = "poll_fast_meter"
    /\ nops = 0
    /\ self.fid = <<"FID", "g1">>
    /\ ret.val.data = "g2"

\* C15: the stored relay definition (the six command codes and the
\* fast-operate and fast-message descriptors) and the identity fields are
\* changed by autoconfig only: during and after any other call they hold the
\* values they had when the call was made, and no step of another call
\* changes them.
C15_OnlyAutoconfigChangesDefinition ==
    [][/\ ~RunsAutoconfig' =>
             \A f \in DefinitionFields \cup IdFields : self'[f] = prev'[f]
       /\ (~RunsAutoconfig /\ op' = op) =>
             \A f \in DefinitionFields \cup IdFields : self'[f] = self[f]]_vars

C15_Witness ==
    /\ op.name = "autoconfig_fastmeter"
    /\ status = "ok"
    /\ ConfiguredBy(prev, "g1")
    /\ self.fastMeterDef.gen = "g2"
    /\ self.fmcommand1 = DataCode("g1", 1)

\* bit i (from 0) of the binary representation of n
BitAt(n, i) == (n \div Pow2(i)) % 2 = 1

\* the number whose binary representation a list is, least significant
\* entry first
RECURSIVE ValueOf(_)
ValueOf(bits) ==
    IF bits = <<>> THEN 0
    ELSE (IF Head(bits) THEN 1 ELSE 0) + 2 * ValueOf(Tail(bits))

\* C16: for n >= 0 the list of int_to_bool_list(n) is least significant bit
\* first and the sum of 2^i over its true indices i is n; with byte_like the
\* list is the plain one followed by false entries only, and still sums to
\* n; with reverse the list is the exact reversal of the list of the same
\* call without reverse.
C16_BoolListReconstructsNumber ==
    ret.fn = "int_to_bool_list" =>
        LET plain == IntToBoolList(op.number, FALSE, FALSE)
            forward == IF op.reverse THEN Reversed(ret.val) ELSE ret.val
        IN /\ ValueOf(forward) = op.number
           /\ \A i \in 1..Len(forward) : forward[i] = BitAt(op.number, i - 1)
           /\ Len(forward) >= Len(plain)
           /\ SubSeq(forward, 1, Len(plain)) = plain
           /\ ~op.byte_like => forward = plain
           /\ \A i \in (Len(plain) + 1)..Len(forward) : forward[i] = FALSE
           /\ op.reverse =>
                 /\ Len(ret.val) = Len(IntToBoolList(op.number, op.byte_like, FALSE))
                 /\ \A i \in 1..Len(ret.val) :
                       ret.val[i] = IntToBoolList(op.number, op.byte_like, FALSE)
                                       [Len(ret.val) + 1 - i]

C16_Witness ==
    /\ ret.fn = "int_to_bool_list"
    /\ op.number = 6
    /\ op.byte_like /\ op.reverse
    /\ ret.val = <<FALSE, FALSE, FALSE, FALSE, FALSE, TRUE, TRUE, FALSE>>

\* the number of binary digits of n
RECURSIVE Digits(_)
Digits(n) == IF n < 2 THEN 1 ELSE 1 + Digits(n \div 2)

\* the least multiple of 8 that is at least d
WholeBytes(d) == ((d + ByteBits - 1) \div ByteBits) * ByteBits

\* a value of more than 8 binary digits keeps them all: the list is as long
\* as the digits, or the multiple of 8 that holds them with byte_like
LongValuesKeepAllDigits ==
    (ret.fn = "int_to_bool_list" /\ Digits(op.number) > ByteBits) =>
        LET d == Digits(op.number)
            forward == IF op.reverse THEN Reversed(ret.val) ELSE ret.val
        IN /\ Len(ret.val) = IF op.byte_like THEN WholeBytes(d) ELSE d
           /\ \A i \in 1..d : forward[i] = BitAt(op.number, i - 1)
           /\ forward[d] = TRUE

\* C17 as claimed: int_to_bool_list(0) without padding is a single false,
\* and a value of more than 8 binary digits keeps all of them.
C17_ZeroIsSingleFalse ==
    /\ (ret.fn = "int_to_bool_list" /\ op.number = 0 /\ ~op.byte_like) =>
          ret.val = <<FALSE>>
    /\ LongValuesKeepAllDigits

\* C17, amended: int_to_bool_list(0) without padding is four false entries,
\* the binary string being zero-filled to four digits; a value of more than
\* 8 binary digits keeps all of them, the list being as long as the digits,
\* or the next multiple of 8 with byte_like.
C17_ZeroIsFourFalse ==
    /\ (ret.fn = "int_to_bool_list" /\ op.number = 0 /\ ~op.byte_like) =>
          ret.val = <<FALSE, FALSE, FALSE, FALSE>>
    /\ LongValuesKeepAllDigits

C17_Witness ==
    /\ ret.fn = "int_to_bool_list"
    /\ op.number = 0
    /\ ~op.byte_like /\ ~op.reverse
    /\ Len(ret.val) = FormatWidth

\* the positions of the writes of the bytes b in the log
WrittenAt(b) == {j \in 1..Len(log) : log[j] = W(b)}

\* a call of access_level_1 ran from its level query to its last read right
\* before position j of the log: two probes, the ACC go-command, the ACC
\* password when its own query found level 0, and the read of the response
Level1CallEndsBefore(j) ==
    IF loc.level1 = 0
    THEN /\ j >= 8
         /\ SubSeq(log, j - 7, j - 1) =
               <<W(CR), R, W(CR), R, W(GO_ACC), W(Pass1Bytes(op.kw)), R>>
    ELSE /\ j >= 7
         /\ SubSeq(log, j - 6, j - 1) = <<W(CR), R, W(CR), R, W(GO_ACC), R>>

AccessLevel2Ladder ==
    loc.level2 # -1 =>
        /\ loc.level2 = 0 =>
              \A j \in WrittenAt(GO_2AC) :
                 /\ loc.level1 # -1
                 /\ Level1CallEndsBefore(j)
        /\ loc.level2 >= 1 => WrittenAt(GO_ACC) = {}
        /\ (ret.fn = "access_level_2" /\ WrittenAt(GO_2AC) = {}) =>
              /\ ret.val = FALSE
              /\ loc.level2 = 0
              /\ WrittenAt(GO_ACC) # {}
              /\ WrittenAt(Pass2Bytes(op.kw)) = {}

\* C18: access_level_2 that found level 0 writes the 2AC go-command only
\* after a whole call of access_level_1 (level query, ACC go-command, ACC
\* password exchange, read) has ended; when that call returns false,
\* access_level_2 returns false at once, with neither the 2AC go-command nor
\* the 2AC password written; and access_level_2 that found level 1 or higher
\* never writes the ACC go-command.
C18_Level2ClimbsThroughLevel1 ==
    [][/\ AccessLevel2Ladder'
       /\ (pc = "a2_after1" /\ ret.val = FALSE) =>
             /\ ret' = [fn |-> "access_level_2", val |-> FALSE]
             /\ log' = log
             /\ pc' # "a2_go"
       /\ (pc = "a2_after1" /\ ret.val = TRUE) => pc' = "a2_go"]_vars

C18_Witness ==
    /\ op.name = "access_level_2"
    /\ ret = [fn |-> "access_level_2", val |-> FALSE]
    /\ loc.level2 = 0 /\ loc.level1 = 0
    /\ WrittenAt(GO_ACC) # {}
    /\ WrittenAt(Pass1Bytes(op.kw)) # {}
    /\ WrittenAt(GO_2AC) = {}

\* the last events of the log: a go-command, its password and one read, or
\* a go-command and one read
EndsWithLogin(go, pass) ==
    /\ Len(log) >= 3
    /\ SubSeq(log, Len(log) - 2, Len(log)) = <<W(go), W(pass), R>>
EndsWithGoOnly(go) ==
    /\ Len(log) >= 3
    /\ SubSeq(log, Len(log) - 1, Len(log)) = <<W(go), R>>
    /\ log[Len(log) - 2].k = "r"

Level1PasswordRule ==
    ret.fn = "access_level_1" =>
        /\ loc.level1 = 0 => EndsWithLogin(GO_ACC, Pass1Bytes(op.kw))
        /\ loc.level1 # 0 => EndsWithGoOnly(GO_ACC)

C20_DefinitionRequestNeedsLevel1 ==
    [][(/\ RunsAutoconfig
        /\ pc = "ac_def_w"
        /\ ret.fn = "access_level_1"
        /\ ret.val = FALSE) =>
          log' # Append(log, W(RELAY_DEFENITION \o CR))]_vars

\* what a poll of a configured client has written by the time it reaches
\* its command write, for each minAccLevel
PollElevation ==
    (op.name = "poll_fast_meter" /\ Configured(self)) =>
        LET command == W(self.fmcommand1 \o CR)
            polling == pc \in {"rcr", "p_parse", "idle"}
        IN /\ op.minAccLevel \notin {1, 2} =>
                 /\ pc \notin {"al_w1", "al_r1", "al_w2", "al_r2", "a1_go", "a1_pw",
                               "a1_rd", "a2_chk", "a2_after1", "a2_go", "a2_pw", "a2_rd"}
                 /\ \A j \in 1..Len(log) : log[j].k = "w" => log[j] = command
           /\ op.minAccLevel = 1 =>
                 /\ log # <<>> => log[1] = W(CR)
                 /\ WrittenAt(GO_2AC) = {}
                 /\ ret.fn = "access_level_1" => pc = "p_w"
                 /\ (pc = "p_w" \/ polling) => WrittenAt(GO_ACC) # {}
           /\ op.minAccLevel = 2 =>
                 /\ log # <<>> => log[1] = W(CR)
                 /\ ret.fn = "access_level_2" => pc = "p_w"
                 /\ (pc = "p_w" \/ polling) =>
                       \/ WrittenAt(GO_2AC) # {}
                       \/ loc.level2 = 0 /\ WrittenAt(GO_ACC) # {}
           /\ polling =>
                 \A j \in WrittenAt(command.b) : \A i \in (j + 1)..Len(log) : log[i].k # "w"

ReadLoopStep ==
    /\ (pc = "rcr" /\ ~Echoed(loc.response, loc.command)) =>
          /\ pc' = "rcr"
          /\ log' = Append(log, R)
          /\ Len(loc'.reads) = Len(loc.reads) + 1
          /\ loc'.response = loc.response \o loc'.reads[Len(loc'.reads)]
          /\ UNCHANGED <<ret, status, stk, self>>
    /\ (pc = "rcr" /\ pc' # "rcr") =>
          /\ Echoed(loc.response, loc.command)
          /\ ret' = [fn |-> "_read_command_response", val |-> loc.response]
          /\ log' = log

\* C22: the loop of _read_command_response, in poll_fast_meter and in the
\* relay-definition step of autoconfig, has no attempt bound: as long as the
\* accumulated response lacks the issued command code the next step is one
\* more read, with no write and no return, for every number of reads
\* followed; and once the accumulated response holds the code the loop
\* returns.
C22_ReadLoopHasNoAttemptBound ==
    /\ [][ReadLoopStep]_vars
    /\ (pc = "rcr" /\ Echoed(loc.response, loc.command)) ~> (pc # "rcr")
    /\ \A k \in 0..(MaxReads - 1) :
          (pc = "rcr" /\ ~Echoed(loc.response, loc.command) /\ loc.n = k)
             ~> (pc \in {"rcr", "p_parse", "ac_def_p"} /\ loc.n = k + 1)

C22_Witness ==
    /\ op.name = "poll_fast_meter"
    /\ pc = "rcr"
    /\ Len(loc.reads) = MaxReads
    /\ ~Echoed(loc.response, loc.command)
    /\ log[Len(log)] = R /\ log[Len(log) - 1] = R

\* C23: whenever poll_fast_meter passes its check of the configuration, the
\* command it writes is the regular fast-meter data command of a parsed
\* relay definition block, the stored configuration was fetched with the
\* regular configuration command of that same block, and a DNA definition
\* is stored: it never polls with a command code of the constructor or
\* without a DNA definition.
C23_PollUsesParsedDefinition ==
    (op.name = "poll_fast_meter" /\ Configured(self)) =>
        /\ \E g \in Gens :
              /\ self.fmcommand1 = DataCode(g, 1)
              /\ self.fmconfigcommand1 = ConfigCode(g, 1)
              /\ self.fastMeterDef.command = ConfigCode(g, 1)
        /\ self.dnaDef.tag = "dna"
        /\ \A j \in 1..Len(log) :
              log[j].k = "w" => log[j].b # FM_DEMAND_CONFIG_BLOCK \o CR

====
